---- MODULE Spec2Model ----
(***************************************************************************)
(* Model of the trending-sound time-series store (package storage) and of  *)
(* its callers.  The two tables of migrations/init.sql are the state; each *)
(* SQL statement issued through database/sql is one atomic step, because   *)
(* the code never opens a transaction (every Exec/QueryRow autocommits).   *)
(* SaveSoundWithHistory is therefore a sequence of two to four such steps, *)
(* and several callers (the scheduler's start-up goroutine, its cron job)  *)
(* interleave at statement granularity.                                    *)
(***************************************************************************)
EXTENDS Integers, Sequences, FiniteSets, TLC

\* ---------------------------------------------------------------- bounds
MaxTime == 1
MaxCalls == 2
MaxDetectCalls == 3
MaxThousands == 3
Spread == 20
\* calls of FetchTrendingSounds made on the parser
MaxFetches == 5

\* ------------------------------------------------------- program constants
\* LIMIT passed by GetAllSoundsWithHistory to GetSoundsByCategory
TopLimit == 1000
\* limit passed by AnalyzeTrends to DetectTrending
AnalyzeLimit == 10
\* failures after which NewRodParser's parser asks for the fallback
maxFails == 3

\* ------------------------------------------------------------ input sets
Writers == {"startup", "cron"}
Urls == {"u1", "u2"}
Categories == {"tech", "gaming"}
Hours == 0..MaxTime
Limits == 0..3
\* the calls of FetchTrendingSounds that can return an error
FailStages == {"Navigate", "WaitLoad", "parseSounds"}

\* the tuples an ingestion source hands to SaveSoundWithHistory: the same url
\* observed with two counts (rising or falling, by the order of the calls),
\* retitled and moved to another category, and a second url
Observations ==
    { [url |-> "u1", title |-> "T1", author |-> "A1", uses_count |-> 1, category |-> "tech"],
      [url |-> "u1", title |-> "T2", author |-> "A2", uses_count |-> 2, category |-> "gaming"],
      [url |-> "u2", title |-> "T1", author |-> "A1", uses_count |-> 1, category |-> "tech"] }

\* the observations fed to the store ahead of a detection pass: a url rising
\* from 1000 to 2600 (or falling back), and a url first seen with no uses.
\* On these counts the float64 evaluation of the growth formula and of every
\* comparison made with it agrees with exact arithmetic.
DetectObservations ==
    { [url |-> "u1", title |-> "T1", author |-> "A1", uses_count |-> 1000, category |-> "tech"],
      [url |-> "u1", title |-> "T1", author |-> "A1", uses_count |-> 2600, category |-> "tech"],
      [url |-> "u2", title |-> "T2", author |-> "A2", uses_count |-> 0, category |-> "tech"],
      [url |-> "u2", title |-> "T2", author |-> "A2", uses_count |-> 600, category |-> "tech"] }

\* baseline counts handed to the growth computation: none, a few, thousands
GrowthOlds == (0..MaxThousands) \cup { 1000 * k : k \in 1..MaxThousands }

\* current counts for baseline old: those whose growth over old lies around 999.9 percent
GrowthNews(old) ==
    { n \in ((10999 * old) \div 1000 - Spread)..((10999 * old) \div 1000 + Spread) : n >= 0 }

\* the statement of a bulk load that the storage fails: 0 the listing, k the
\* baseline lookup of the k-th sound listed
FailPoints == 0..Cardinality(Urls)

\* limit arguments of DetectTrending
DetectLimits == {-1, 0, 1, 2}

Nil == [nil |-> TRUE]
NoErr == "nil"
NoRet == [op |-> "none"]

VARIABLES
    sounds,     \* table sounds: sequence of rows, id = position (AUTOINCREMENT, no deletes)
    history,    \* table sound_history: sequence of rows, id = position
    now,        \* the wall clock read by time.Now(), in hours
    wr,         \* per caller: the running SaveSoundWithHistory invocation
    rd,         \* the running GetAllSoundsWithHistory invocation
    ret,        \* result of the single-statement query that has just returned
    nCalls,     \* per url: SaveSoundWithHistory calls that have returned
    nOk,        \* per url: those that returned nil
    started,    \* number of SaveSoundWithHistory calls started
    parser,     \* the RodParser: its failCount and maxFails fields
    fetched     \* outcome of every FetchTrendingSounds call that has returned, in order

vars == <<sounds, history, now, wr, rd, ret, nCalls, nOk, started, parser, fetched>>

\* ------------------------------------------------------------ the tables
\* url TEXT UNIQUE NOT NULL: an INSERT whose url is already present fails
UrlTakenNoConstraint(tbl, url) == FALSE

UrlTaken(tbl, url) == \E i \in DOMAIN tbl : tbl[i].url = url

\* SELECT ... FROM sounds WHERE url = ?  (sql.ErrNoRows becomes nil, nil)
GetSoundByURL(tbl, url) ==
    IF \E i \in DOMAIN tbl : tbl[i].url = url
    THEN tbl[CHOOSE i \in DOMAIN tbl : tbl[i].url = url]
    ELSE Nil

\* INSERT INTO sounds (title, author, url, uses_count, category, created_at, updated_at)
SaveSound(tbl, s) ==
    Append(tbl, [id |-> Len(tbl) + 1, title |-> s.title, author |-> s.author,
                 url |-> s.url, uses_count |-> s.uses_count, category |-> s.category,
                 created_at |-> s.created_at, updated_at |-> s.updated_at])

\* UPDATE sounds SET title, author, uses_count, category, updated_at WHERE id = ?
UpdateSoundTouchesCreated(tbl, s) ==
    [i \in DOMAIN tbl |->
        IF tbl[i].id = s.id
        THEN [tbl[i] EXCEPT !.title = s.title, !.author = s.author,
                            !.uses_count = s.uses_count, !.category = s.category,
                            !.created_at = s.updated_at, !.updated_at = s.updated_at]
        ELSE tbl[i]]

UpdateSoundKeepsCategory(tbl, s) ==
    [i \in DOMAIN tbl |->
        IF tbl[i].id = s.id
        THEN [tbl[i] EXCEPT !.title = s.title, !.author = s.author,
                            !.uses_count = s.uses_count, !.updated_at = s.updated_at]
        ELSE tbl[i]]

UpdateSound(tbl, s) ==
    [i \in DOMAIN tbl |->
        IF tbl[i].id = s.id
        THEN [tbl[i] EXCEPT !.title = s.title, !.author = s.author,
                            !.uses_count = s.uses_count, !.category = s.category,
                            !.updated_at = s.updated_at]
        ELSE tbl[i]]

\* INSERT INTO sound_history (sound_id, uses_count, recorded_at) VALUES (?, ?, time.Now())
SaveSoundHistoryReplacing(tbl, soundID, usesCount, t) ==
    SelectSeq(tbl, LAMBDA h : h.sound_id # soundID)
        \o << [id |-> Len(tbl) + 1, sound_id |-> soundID, uses_count |-> usesCount, recorded_at |-> t] >>

SaveSoundHistory(tbl, soundID, usesCount, t) ==
    Append(tbl, [id |-> Len(tbl) + 1, sound_id |-> soundID,
                 uses_count |-> usesCount, recorded_at |-> t])

\* ------------------------------------------------------------ the queries
Min(a, b) == IF a < b THEN a ELSE b

\* the orders in which the rows of a result set can come back
Orderings(rows) ==
    { [k \in DOMAIN rows |-> rows[p[k]]] :
        p \in { q \in [DOMAIN rows -> DOMAIN rows] :
                    \A a, b \in DOMAIN rows : a # b => q[a] # q[b] } }

\* SELECT ... FROM sounds WHERE category = ? ORDER BY updated_at DESC LIMIT ?
\* The set of result sequences the statement can produce: rows with equal
\* updated_at come back in an order the statement does not fix.
GetSoundsByCategoryAscending(tbl, category, limit) ==
    LET rows == SelectSeq(tbl, LAMBDA r : r.category = category)
    IN  { SubSeq(o, 1, Min(limit, Len(o))) :
            o \in { x \in Orderings(rows) :
                      \A a, b \in DOMAIN x : a < b => x[a].updated_at <= x[b].updated_at } }

GetSoundsByCategory(tbl, category, limit) ==
    LET rows == SelectSeq(tbl, LAMBDA r : r.category = category)
    IN  { SubSeq(o, 1, Min(limit, Len(o))) :
            o \in { x \in Orderings(rows) :
                      \A a, b \in DOMAIN x : a < b => x[a].updated_at >= x[b].updated_at } }

\* cutoffTime := time.Now().Add(-time.Duration(hoursAgo) * time.Hour)
\* SELECT ... FROM sound_history WHERE sound_id = ? AND recorded_at >= ?
\*   ORDER BY recorded_at ASC LIMIT 1      (sql.ErrNoRows becomes nil, nil)
\* The set of rows the statement can produce, {Nil} when there is none.
GetSoundHistoryByTimeStrict(tbl, soundID, hoursAgo, t) ==
    LET cutoffTime == t - hoursAgo
        rows == SelectSeq(tbl, LAMBDA h : h.sound_id = soundID /\ h.recorded_at > cutoffTime)
    IN  IF rows = <<>> THEN {Nil}
        ELSE { rows[i] : i \in { k \in DOMAIN rows :
                 \A j \in DOMAIN rows : rows[k].recorded_at <= rows[j].recorded_at } }

GetSoundHistoryByTime(tbl, soundID, hoursAgo, t) ==
    LET cutoffTime == t - hoursAgo
        rows == SelectSeq(tbl, LAMBDA h : h.sound_id = soundID /\ h.recorded_at >= cutoffTime)
    IN  IF rows = <<>> THEN {Nil}
        ELSE { rows[i] : i \in { k \in DOMAIN rows :
                 \A j \in DOMAIN rows : rows[k].recorded_at <= rows[j].recorded_at } }

\* part_000:258-278  GetAllSoundsWithHistory run against one state of the
\* tables at one reading t of the clock: the loop over sounds
RECURSIVE LoadHistory(_, _, _, _, _, _)
LoadHistory(histTbl, t, hoursAgo, snds, k, historyMap) ==
    IF k > Len(snds)
    THEN {historyMap}
    ELSE UNION { LoadHistory(histTbl, t, hoursAgo, snds, k + 1,
                             IF h # Nil THEN (snds[k].id :> h) @@ historyMap ELSE historyMap) :
                   h \in GetSoundHistoryByTime(histTbl, snds[k].id, hoursAgo, t) }

\* the (sounds, historyMap) pairs the call can return
GetAllSoundsWithHistoryOldest(sndTbl, histTbl, t, category, hoursAgo) ==
    UNION { { [sounds |-> snds, historyMap |-> m] :
                m \in LoadHistory(histTbl, t, t, snds, 1, <<>>) } :
            snds \in GetSoundsByCategory(sndTbl, category, TopLimit) }

GetAllSoundsWithHistory(sndTbl, histTbl, t, category, hoursAgo) ==
    UNION { { [sounds |-> snds, historyMap |-> m] :
                m \in LoadHistory(histTbl, t, hoursAgo, snds, 1, <<>>) } :
            snds \in GetSoundsByCategory(sndTbl, category, TopLimit) }

\* part_000:260-271  the call when the storage fails it: failAt = 0 is the
\* query of GetSoundsByCategory, failAt = k the baseline lookup of the k-th
\* sound; a failure is an outcome only if the call gets as far as failAt
GetAllSoundsWithHistorySkipping(sndTbl, histTbl, t, category, hoursAgo, failAt) ==
    UNION { { [sounds |-> snds, historyMap |-> m, err |-> NoErr] :
                m \in LoadHistory(histTbl, t, hoursAgo,
                                  [k \in 1..(Len(snds) - 1) |->
                                     IF k < failAt THEN snds[k] ELSE snds[k + 1]],
                                  1, <<>>) } :
            snds \in { x \in GetSoundsByCategory(sndTbl, category, TopLimit) :
                         failAt >= 1 /\ failAt <= Len(x) } }

GetAllSoundsWithHistoryFailing(sndTbl, histTbl, t, category, hoursAgo, failAt) ==
    IF failAt = 0
    THEN { [sounds |-> Nil, historyMap |-> Nil, err |-> "query"] }
    ELSE { [sounds |-> Nil, historyMap |-> Nil, err |-> "history"] :
             snds \in { x \in GetSoundsByCategory(sndTbl, category, TopLimit) :
                          failAt <= Len(x) } }

\* ------------------------------------------------------------ the detector
\* float64 growth values, kept as fractions in lowest terms
RECURSIVE Gcd(_, _)
Gcd(a, b) == IF b = 0 THEN a ELSE Gcd(b, a % b)

Abs(a) == IF a < 0 THEN 0 - a ELSE a

Rat(n, d) ==
    LET g == Gcd(Abs(n), d)
    IN  [num |-> n \div g, den |-> d \div g]

RatGE(a, b) == a.num * b.den >= b.num * a.den

RatAdd(a, b) == Rat(a.num * b.den + b.num * a.den, a.den * b.den)

\* GrowthPercent: 999.9, // Special marker for new sounds
SentinelGrowth == Rat(9999, 10)

\* detector.go:32-39
DefaultCriteriaAnyGrowth ==
    [MinUsesCount |-> 500, MaxUsesCount |-> 30000, MinGrowth |-> Rat(0, 1),
     LookbackHours |-> 24]

DefaultCriteria ==
    [MinUsesCount |-> 500, MaxUsesCount |-> 30000, MinGrowth |-> Rat(150, 1),
     LookbackHours |-> 24]

\* the criteria handed to DetectTrendingWithCriteria: the defaults, a growth
\* threshold at and above the growth of 1000 -> 2600, a band that admits
\* everything, a band from 600 to 1000, a window of zero hours, and a
\* band whose lower bound lies above its upper bound
CriteriaSet ==
    { DefaultCriteria,
      [DefaultCriteria EXCEPT !.MinGrowth = Rat(160, 1)],
      [DefaultCriteria EXCEPT !.MinGrowth = Rat(170, 1)],
      [DefaultCriteria EXCEPT !.MinUsesCount = 0, !.MinGrowth = Rat(0, 1)],
      [DefaultCriteria EXCEPT !.MinUsesCount = 600, !.MaxUsesCount = 1000,
                              !.MinGrowth = Rat(0, 1)],
      [DefaultCriteria EXCEPT !.LookbackHours = 0],
      [DefaultCriteria EXCEPT !.MinUsesCount = 1000, !.MaxUsesCount = 600,
                              !.MinGrowth = Rat(0, 1)] }

\* detector.go:115-120
calculateGrowthOverNew(oldCount, newCount) ==
    IF oldCount = 0 \/ newCount = 0 THEN Rat(0, 1)
    ELSE Rat((newCount - oldCount) * 100, newCount)

calculateGrowth(oldCount, newCount) ==
    IF oldCount = 0 THEN Rat(0, 1)
    ELSE Rat((newCount - oldCount) * 100, oldCount)

TrendingSound(sound, growth, oldCount) ==
    [sound |-> sound, growth_percent |-> growth, old_uses_count |-> oldCount]

\* detector.go:60-96  the body of the loop over sounds: what one sound
\* appends to trendingSounds
ScoreNoUpperBound(sound, historyMap, criteria) ==
    IF sound.uses_count < criteria.MinUsesCount THEN <<>>
    ELSE IF sound.id \notin DOMAIN historyMap THEN <<>>
    ELSE LET oldCount == historyMap[sound.id].uses_count
         IN  IF oldCount = 0
             THEN IF sound.uses_count >= criteria.MinUsesCount
                  THEN << TrendingSound(sound, SentinelGrowth, 0) >>
                  ELSE <<>>
             ELSE LET growth == calculateGrowth(oldCount, sound.uses_count)
                  IN  IF RatGE(growth, criteria.MinGrowth)
                      THEN << TrendingSound(sound, growth, oldCount) >>
                      ELSE <<>>

ScoreNoHistoryIsNew(sound, historyMap, criteria) ==
    IF sound.uses_count < criteria.MinUsesCount \/ sound.uses_count > criteria.MaxUsesCount
    THEN <<>>
    ELSE LET oldCount == IF sound.id \in DOMAIN historyMap
                         THEN historyMap[sound.id].uses_count ELSE 0
         IN  IF oldCount = 0
             THEN IF sound.uses_count >= criteria.MinUsesCount
                  THEN << TrendingSound(sound, SentinelGrowth, 0) >>
                  ELSE <<>>
             ELSE LET growth == calculateGrowth(oldCount, sound.uses_count)
                  IN  IF RatGE(growth, criteria.MinGrowth)
                      THEN << TrendingSound(sound, growth, oldCount) >>
                      ELSE <<>>

ScoreStrictGrowth(sound, historyMap, criteria) ==
    IF sound.uses_count < criteria.MinUsesCount \/ sound.uses_count > criteria.MaxUsesCount
    THEN <<>>
    ELSE IF sound.id \notin DOMAIN historyMap THEN <<>>
    ELSE LET oldCount == historyMap[sound.id].uses_count
         IN  IF oldCount = 0
             THEN IF sound.uses_count >= criteria.MinUsesCount
                  THEN << TrendingSound(sound, SentinelGrowth, 0) >>
                  ELSE <<>>
             ELSE LET growth == calculateGrowth(oldCount, sound.uses_count)
                  IN  IF ~ RatGE(criteria.MinGrowth, growth)
                      THEN << TrendingSound(sound, growth, oldCount) >>
                      ELSE <<>>

ScoreNoZeroCase(sound, historyMap, criteria) ==
    IF sound.uses_count < criteria.MinUsesCount \/ sound.uses_count > criteria.MaxUsesCount
    THEN <<>>
    ELSE IF sound.id \notin DOMAIN historyMap THEN <<>>
    ELSE LET oldCount == historyMap[sound.id].uses_count
             growth == calculateGrowth(oldCount, sound.uses_count)
         IN  IF RatGE(growth, criteria.MinGrowth)
             THEN << TrendingSound(sound, growth, oldCount) >>
             ELSE <<>>

ScoreSwappingBand(sound, historyMap, criteria) ==
    IF \/ sound.uses_count < Min(criteria.MinUsesCount, criteria.MaxUsesCount)
       \/ (sound.uses_count > criteria.MinUsesCount /\ sound.uses_count > criteria.MaxUsesCount)
    THEN <<>>
    ELSE IF sound.id \notin DOMAIN historyMap THEN <<>>
    ELSE LET oldCount == historyMap[sound.id].uses_count
         IN  IF oldCount = 0
             THEN << TrendingSound(sound, SentinelGrowth, 0) >>
             ELSE LET growth == calculateGrowth(oldCount, sound.uses_count)
                  IN  IF RatGE(growth, criteria.MinGrowth)
                      THEN << TrendingSound(sound, growth, oldCount) >>
                      ELSE <<>>

Score(sound, historyMap, criteria) ==
    IF sound.uses_count < criteria.MinUsesCount \/ sound.uses_count > criteria.MaxUsesCount
    THEN <<>>
    ELSE IF sound.id \notin DOMAIN historyMap THEN <<>>
    ELSE LET oldCount == historyMap[sound.id].uses_count
         IN  IF oldCount = 0
             THEN IF sound.uses_count >= criteria.MinUsesCount
                  THEN << TrendingSound(sound, SentinelGrowth, 0) >>
                  ELSE <<>>
             ELSE LET growth == calculateGrowth(oldCount, sound.uses_count)
                  IN  IF RatGE(growth, criteria.MinGrowth)
                      THEN << TrendingSound(sound, growth, oldCount) >>
                      ELSE <<>>

\* detector.go:57-97  trendingSounds after the loop
RECURSIVE ScanSounds(_, _, _, _)
ScanSounds(snds, historyMap, criteria, k) ==
    IF k > Len(snds) THEN <<>>
    ELSE Score(snds[k], historyMap, criteria) \o ScanSounds(snds, historyMap, criteria, k + 1)

\* detector.go:100-102  sort.Slice with less = GrowthPercent greater: the
\* orders it can leave, elements of equal growth in any order
SortByGrowthAscending(ts) ==
    { x \in Orderings(ts) :
        \A a, b \in DOMAIN x : a < b => RatGE(x[b].growth_percent, x[a].growth_percent) }

SortByGrowth(ts) ==
    { x \in Orderings(ts) :
        \A a, b \in DOMAIN x : a < b => RatGE(x[a].growth_percent, x[b].growth_percent) }

\* detector.go:105-107
LimitResultsAlways(ts, limit) == SubSeq(ts, 1, Min(limit, Len(ts)))

LimitResults(ts, limit) ==
    IF limit > 0 /\ Len(ts) > limit THEN SubSeq(ts, 1, limit) ELSE ts

\* detector.go:59-111  what DetectTrendingWithCriteria can return for the
\* sounds and historyMap it has loaded
RankTrending(snds, historyMap, limit, criteria) ==
    { LimitResults(x, limit) : x \in SortByGrowth(ScanSounds(snds, historyMap, criteria, 1)) }

\* detector.go:50-111  what DetectTrendingWithCriteria returns on the outcome r
\* of GetAllSoundsWithHistory
DetectOutcomes(r, limit, criteria) ==
    IF r.err # NoErr
    THEN { [result |-> Nil, err |-> "failed to get sounds with history"] }
    ELSE { [result |-> ts, err |-> NoErr] :
             ts \in RankTrending(r.sounds, r.historyMap, limit, criteria) }

\* detector.go:137-141  totalGrowth after the loop over trendingSounds
RECURSIVE TotalGrowth(_, _)
TotalGrowth(ts, k) ==
    IF k > Len(ts) THEN Rat(0, 1)
    ELSE RatAdd(ts[k].growth_percent, TotalGrowth(ts, k + 1))

\* detector.go:129-147  the analysis built from the list DetectTrending returned
AnalysisOverLimit(category, ts) ==
    [Category |-> category,
     TrendingCount |-> Len(ts),
     AverageGrowth |-> IF Len(ts) > 0
                       THEN LET total == TotalGrowth(ts, 1)
                            IN  Rat(total.num, total.den * AnalyzeLimit)
                       ELSE Rat(0, 1),
     TopSound |-> IF Len(ts) > 0 THEN ts[1] ELSE Nil,
     TrendingSounds |-> ts]

Analysis(category, ts) ==
    [Category |-> category,
     TrendingCount |-> Len(ts),
     AverageGrowth |-> IF Len(ts) > 0
                       THEN LET total == TotalGrowth(ts, 1)
                            IN  Rat(total.num, total.den * Len(ts))
                       ELSE Rat(0, 1),
     TopSound |-> IF Len(ts) > 0 THEN ts[1] ELSE Nil,
     TrendingSounds |-> ts]

\* ----------------------------------------------------- float64 arithmetic
\* A float64 other than zero is (-1)^neg * 1.man[2..53] * 2^exp, man its 53
\* significant bits, the first of them 1.
Zero64 == [neg |-> FALSE, exp |-> 0, man |-> <<>>]

Pow2[i \in 0..30] == IF i = 0 THEN 1 ELSE 2 * Pow2[i - 1]

\* v < 2^w written in w binary digits, the most significant first
Bits(v, w) == [i \in 1..w |-> (v \div Pow2[w - i]) % 2]

\* the binary digits of n >= 0 without leading zeros
IntBits(n) == Bits(n, Cardinality({ i \in 0..30 : Pow2[i] <= n }))

\* the number that at most eight digits write
RECURSIVE BitsValue(_)
BitsValue(bits) ==
    IF bits = <<>> THEN 0
    ELSE 2 * BitsValue(SubSeq(bits, 1, Len(bits) - 1)) + bits[Len(bits)]

PutBits(bs, rest) == [bits |-> bs \o rest.bits, rem |-> rest.rem]

\* at least n of the next binary digits of r / b, eight at a time, for
\* 0 <= r < b < 2^23, and the remainder left
RECURSIVE FracBits(_, _, _)
FracBits(r, b, n) ==
    IF n <= 0 THEN [bits |-> <<>>, rem |-> r]
    ELSE PutBits(Bits((r * 256) \div b, 8), FracBits((r * 256) % b, b, n - 8))

\* the number of zeros that open the binary expansion of a / b for 0 < a < b
LeadingZeros(a, b) == Cardinality({ i \in 1..30 : Pow2[i] <= (b - 1) \div a })

\* bits + 1
IncBits(bits) ==
    LET zs == { i \in DOMAIN bits : bits[i] = 0 }
    IN  IF zs = {}
        THEN <<1>> \o [i \in DOMAIN bits |-> 0]
        ELSE LET p == CHOOSE i \in zs : \A j \in zs : j <= i
             IN  [i \in DOMAIN bits |-> IF i < p THEN bits[i] ELSE IF i = p THEN 1 ELSE 0]

\* round to nearest, ties to even: bits are at least 54 digits of the exact
\* magnitude, the first of them 1 and worth 2^exp; sticky tells of digits
\* beyond them that are not zero
Round(neg, exp, bits, sticky) ==
    LET man == SubSeq(bits, 1, 53)
        rest == sticky \/ \E i \in 55..Len(bits) : bits[i] = 1
        up == bits[54] = 1 /\ (rest \/ man[53] = 1)
        m == IF up THEN IncBits(man) ELSE man
    IN  [neg |-> neg, exp |-> IF Len(m) = 54 THEN exp + 1 ELSE exp, man |-> SubSeq(m, 1, 53)]

\* float64(a) / float64(b) for integers a >= 0 and 0 < b < 2^23
Div64(a, b) ==
    IF a = 0 THEN Zero64
    ELSE IF a \div b > 0
    THEN LET lead == IntBits(a \div b)
             f == FracBits(a % b, b, 54 - Len(lead))
         IN  Round(FALSE, Len(lead) - 1, lead \o f.bits, f.rem # 0)
    ELSE LET z == LeadingZeros(a, b)
             f == FracBits(a * Pow2[z], b, 54)
         IN  Round(FALSE, 0 - (z + 1), f.bits, f.rem # 0)

\* the digits of bits * k + carry, eight digits of bits at a time
RECURSIVE MulBits(_, _, _)
MulBits(bits, k, carry) ==
    IF bits = <<>> THEN IntBits(carry)
    ELSE LET w == Min(8, Len(bits))
             v == BitsValue(SubSeq(bits, Len(bits) - w + 1, Len(bits))) * k + carry
         IN  MulBits(SubSeq(bits, 1, Len(bits) - w), k, v \div Pow2[w]) \o Bits(v % Pow2[w], w)

\* x * float64(k) for an integer 0 < k < 2^22
Mul64(x, k) ==
    IF x.man = <<>> THEN x
    ELSE LET p == MulBits(x.man, k, 0) \o <<0>>
         IN  Round(x.neg, x.exp + Len(p) - 54, p, FALSE)

\* detector.go:80  the constant 999.9 as the compiler rounds it
Sentinel64Thousand == Div64(1000, 1)

Sentinel64 == Div64(9999, 10)

\* detector.go:115-120 in float64
calculateGrowth64(oldCount, newCount) ==
    IF oldCount = 0 THEN Zero64
    ELSE LET q == Div64(Abs(newCount - oldCount), oldCount)
         IN  Mul64([q EXCEPT !.neg = newCount < oldCount], 100)

\* --------------------------------------------------------------- Init
IdleWriter ==
    [pc |-> "idle", url |-> "u1", sound |-> Nil, err |-> NoErr, path |-> "none",
     itemWritten |-> FALSE, failed |-> FALSE]

\* part_000:388-402  the parser NewRodParser returns
NewRodParser == [failCount |-> 0, maxFails |-> maxFails]

IdleReader ==
    [pc |-> "idle", category |-> "tech", hoursAgo |-> 0, sounds |-> <<>>, historyMap |-> <<>>, i |-> 1]

Init ==
    /\ sounds = <<>>
    /\ history = <<>>
    /\ now = 0
    /\ wr = [w \in Writers |-> IdleWriter]
    /\ rd = IdleReader
    /\ ret = NoRet
    /\ nCalls = [u \in Urls |-> 0]
    /\ nOk = [u \in Urls |-> 0]
    /\ started = 0
    /\ parser = NewRodParser
    /\ fetched = <<>>

\* time passes between statements
Tick ==
    /\ now < MaxTime
    /\ now' = now + 1
    /\ ret' = NoRet
    /\ UNCHANGED <<sounds, history, wr, rd, nCalls, nOk, started, parser, fetched>>

\* ------------------------------------------------ SaveSoundWithHistory
\* a caller (CollectSounds / ManualCollect loop body) enters SaveSoundWithHistory
CallFrom(w, observations, maxCalls) ==
    /\ wr[w].pc = "idle"
    /\ started < maxCalls
    /\ \E o \in observations :
        wr' = [wr EXCEPT ![w] =
                 [pc |-> "get", url |-> o.url,
                  sound |-> [id |-> 0, title |-> o.title, author |-> o.author, url |-> o.url,
                             uses_count |-> o.uses_count, category |-> o.category,
                             created_at |-> 0, updated_at |-> 0],
                  err |-> NoErr, path |-> "none", itemWritten |-> FALSE, failed |-> FALSE]]
    /\ started' = started + 1
    /\ ret' = NoRet
    /\ UNCHANGED <<sounds, history, now, rd, nCalls, nOk, parser, fetched>>

Call(w) == CallFrom(w, Observations, MaxCalls)

\* return from SaveSoundWithHistory with result e
Return(w, e) ==
    /\ nCalls' = [nCalls EXCEPT ![wr[w].sound.url] = @ + 1]
    /\ nOk' = IF e = NoErr THEN [nOk EXCEPT ![wr[w].sound.url] = @ + 1] ELSE nOk

\* storage.go:35-36  existing, err := s.GetSoundByURL(sound.URL), query succeeds
Lookup(w) ==
    /\ wr[w].pc = "get"
    /\ LET existing == GetSoundByURL(sounds, wr[w].sound.url)
       IN  wr' = [wr EXCEPT ![w].pc = IF existing # Nil THEN "update" ELSE "save",
                            ![w].path = IF existing # Nil THEN "update" ELSE "create",
                            ![w].sound = IF existing # Nil
                                         THEN [@ EXCEPT !.id = existing.id,
                                                        !.created_at = existing.created_at]
                                         ELSE @]
    /\ ret' = NoRet
    /\ UNCHANGED <<sounds, history, now, rd, nCalls, nOk, started, parser, fetched>>

\* storage.go:38-43  update branch, UPDATE succeeds
Update(w) ==
    /\ wr[w].pc = "update"
    /\ LET s == [wr[w].sound EXCEPT !.updated_at = now]
       IN  /\ sounds' = UpdateSound(sounds, s)
           /\ wr' = [wr EXCEPT ![w].pc = "history", ![w].sound = s, ![w].itemWritten = TRUE]
    /\ ret' = NoRet
    /\ UNCHANGED <<history, now, rd, nCalls, nOk, started, parser, fetched>>

\* storage.go:46-50  create branch, INSERT succeeds (url not yet present)
Insert(w) ==
    /\ wr[w].pc = "save"
    /\ ~UrlTaken(sounds, wr[w].sound.url)
    /\ LET s == [wr[w].sound EXCEPT !.created_at = now, !.updated_at = now,
                                    !.id = Len(sounds) + 1]
       IN  /\ sounds' = SaveSound(sounds, s)
           /\ wr' = [wr EXCEPT ![w].pc = "reget", ![w].sound = s, ![w].itemWritten = TRUE]
    /\ ret' = NoRet
    /\ UNCHANGED <<history, now, rd, nCalls, nOk, started, parser, fetched>>

\* storage.go:48-50  create branch, INSERT rejected by the UNIQUE constraint on url
InsertConflict(w) ==
    /\ wr[w].pc = "save"
    /\ UrlTaken(sounds, wr[w].sound.url)
    /\ wr' = [wr EXCEPT ![w].pc = "idle", ![w].sound = Nil, ![w].err = "save"]
    /\ Return(w, "save")
    /\ ret' = NoRet
    /\ UNCHANGED <<sounds, history, now, rd, started, parser, fetched>>

\* storage.go:52-56  created, err := s.GetSoundByURL(sound.URL); sound.ID = created.ID
Reget(w) ==
    /\ wr[w].pc = "reget"
    /\ LET created == GetSoundByURL(sounds, wr[w].sound.url)
       IN  /\ created # Nil
           /\ wr' = [wr EXCEPT ![w].pc = "history", ![w].sound.id = created.id]
    /\ ret' = NoRet
    /\ UNCHANGED <<sounds, history, now, rd, nCalls, nOk, started, parser, fetched>>

\* storage.go:60  return s.SaveSoundHistory(sound.ID, sound.UsesCount), INSERT succeeds
AppendHistory(w) ==
    /\ wr[w].pc = "history"
    /\ history' = SaveSoundHistory(history, wr[w].sound.id, wr[w].sound.uses_count, now)
    /\ wr' = [wr EXCEPT ![w].pc = "idle", ![w].sound = Nil, ![w].err = NoErr]
    /\ Return(w, NoErr)
    /\ ret' = NoRet
    /\ UNCHANGED <<sounds, now, rd, started, parser, fetched>>

\* ------------------------------------------------------- storage faults
\* storage.go:35-36  GetSoundByURL fails: err != nil, so the else branch runs
LookupFail(w) ==
    /\ wr[w].pc = "get"
    /\ wr' = [wr EXCEPT ![w].pc = "save", ![w].path = "create", ![w].failed = TRUE]
    /\ ret' = NoRet
    /\ UNCHANGED <<sounds, history, now, rd, nCalls, nOk, started, parser, fetched>>

\* storage.go:41-43, 48-50, 52-55, 60  the statement at hand fails and the
\* error is returned at once
StatementFail(w) ==
    /\ wr[w].pc \in {"update", "save", "reget", "history"}
    /\ wr' = [wr EXCEPT ![w].pc = "idle", ![w].sound = Nil, ![w].err = wr[w].pc,
                         ![w].failed = TRUE]
    /\ Return(w, wr[w].pc)
    /\ ret' = NoRet
    /\ UNCHANGED <<sounds, history, now, rd, started, parser, fetched>>

\* ------------------------------------------------------------ the readers
\* a caller runs GetSoundsByCategory(category, limit) on its own
CallGetSoundsByCategory ==
    /\ \E c \in Categories, l \in Limits :
        \E r \in GetSoundsByCategory(sounds, c, l) :
            ret' = [op |-> "GetSoundsByCategory", category |-> c, limit |-> l, result |-> r]
    /\ UNCHANGED <<sounds, history, now, wr, rd, nCalls, nOk, started, parser, fetched>>

\* a caller runs GetSoundHistoryByTime(soundID, hoursAgo) on its own
CallGetSoundHistoryByTime ==
    /\ \E id \in 1..(Len(sounds) + 1), h \in Hours :
        \E r \in GetSoundHistoryByTime(history, id, h, now) :
            ret' = [op |-> "GetSoundHistoryByTime", soundID |-> id, hoursAgo |-> h, result |-> r]
    /\ UNCHANGED <<sounds, history, now, wr, rd, nCalls, nOk, started, parser, fetched>>

\* the detector enters GetAllSoundsWithHistory(category, hoursAgo)
CallGetAll ==
    /\ rd.pc = "idle"
    /\ \E c \in Categories, h \in Hours :
        rd' = [pc |-> "list", category |-> c, hoursAgo |-> h, sounds |-> <<>>,
               historyMap |-> <<>>, i |-> 1]
    /\ ret' = NoRet
    /\ UNCHANGED <<sounds, history, now, wr, nCalls, nOk, started, parser, fetched>>

\* part_000:260  sounds, err := s.GetSoundsByCategory(category, 1000)
GetAllList ==
    /\ rd.pc = "list"
    /\ \E r \in GetSoundsByCategory(sounds, rd.category, TopLimit) :
        rd' = [rd EXCEPT !.pc = "loop", !.sounds = r]
    /\ ret' = NoRet
    /\ UNCHANGED <<sounds, history, now, wr, nCalls, nOk, started, parser, fetched>>

\* part_000:267-275  one iteration of the loop over sounds
GetAllHistory ==
    /\ rd.pc = "loop"
    /\ rd.i <= Len(rd.sounds)
    /\ \E h \in GetSoundHistoryByTime(history, rd.sounds[rd.i].id, rd.hoursAgo, now) :
        rd' = [rd EXCEPT !.i = @ + 1,
                         !.historyMap = IF h # Nil THEN (rd.sounds[rd.i].id :> h) @@ @ ELSE @]
    /\ ret' = NoRet
    /\ UNCHANGED <<sounds, history, now, wr, nCalls, nOk, started, parser, fetched>>

\* part_000:277  return sounds, historyMap, nil
GetAllReturn ==
    /\ rd.pc = "loop"
    /\ rd.i > Len(rd.sounds)
    /\ rd' = IdleReader
    /\ ret' = [op |-> "GetAllSoundsWithHistory", category |-> rd.category,
               hoursAgo |-> rd.hoursAgo, sounds |-> rd.sounds, historyMap |-> rd.historyMap,
               err |-> NoErr]
    /\ UNCHANGED <<sounds, history, now, wr, nCalls, nOk, started, parser, fetched>>

\* ------------------------------------------------------------ the detector
\* a caller runs GetAllSoundsWithHistory(category, hoursAgo) against one state
\* of the store
CallGetAllSoundsWithHistory ==
    /\ \E c \in Categories, h \in Hours \cup { cr.LookbackHours : cr \in CriteriaSet } :
        \E r \in GetAllSoundsWithHistory(sounds, history, now, c, h) :
            ret' = [op |-> "GetAllSoundsWithHistory", category |-> c, hoursAgo |-> h,
                    sounds |-> r.sounds, historyMap |-> r.historyMap, err |-> NoErr]
    /\ UNCHANGED <<sounds, history, now, wr, rd, nCalls, nOk, started, parser, fetched>>

\* detector.go:48-112  DetectTrendingWithCriteria(category, limit, criteria);
\* the sounds and the historyMap it loaded are kept beside its result
CallDetectTrendingRecording ==
    /\ \E c \in Categories, l \in DetectLimits, cr \in CriteriaSet :
        \E r \in GetAllSoundsWithHistory(sounds, history, now, c, cr.LookbackHours) :
            \E ts \in RankTrending(r.sounds, r.historyMap, l, cr) :
                /\ ret' = [op |-> "DetectTrending", category |-> c, limit |-> l,
                           criteria |-> cr, sounds |-> r.sounds,
                           historyMap |-> r.historyMap, result |-> ts, err |-> NoErr]
                /\ history' = IF ts = <<>> THEN history
                              ELSE SaveSoundHistory(history, ts[1].sound.id,
                                                    ts[1].sound.uses_count, now)
    /\ UNCHANGED <<sounds, now, wr, rd, nCalls, nOk, started, parser, fetched>>

CallDetectTrendingWithCriteria ==
    /\ \E c \in Categories, l \in DetectLimits, cr \in CriteriaSet :
        \E r \in GetAllSoundsWithHistory(sounds, history, now, c, cr.LookbackHours) :
            \E ts \in RankTrending(r.sounds, r.historyMap, l, cr) :
                ret' = [op |-> "DetectTrending", category |-> c, limit |-> l,
                        criteria |-> cr, sounds |-> r.sounds,
                        historyMap |-> r.historyMap, result |-> ts, err |-> NoErr]
    /\ UNCHANGED <<sounds, history, now, wr, rd, nCalls, nOk, started, parser, fetched>>

\* detector.go:123-148  AnalyzeTrends(category), through DetectTrending(category, 10)
CallAnalyzeTrends ==
    /\ \E c \in Categories :
        \E r \in GetAllSoundsWithHistory(sounds, history, now, c, DefaultCriteria.LookbackHours) :
            \E ts \in RankTrending(r.sounds, r.historyMap, AnalyzeLimit, DefaultCriteria) :
                ret' = [op |-> "AnalyzeTrends", category |-> c, detected |-> ts,
                        result |-> Analysis(c, ts), err |-> NoErr]
    /\ UNCHANGED <<sounds, history, now, wr, rd, nCalls, nOk, started, parser, fetched>>

\* GetAllSoundsWithHistory(category, hoursAgo) on a storage that fails the
\* statement failAt of it
CallGetAllSoundsWithHistoryFailing ==
    /\ \E c \in Categories, h \in Hours, f \in FailPoints :
        \E r \in GetAllSoundsWithHistoryFailing(sounds, history, now, c, h, f) :
            ret' = [op |-> "GetAllSoundsWithHistory", category |-> c, hoursAgo |-> h,
                    failAt |-> f, sounds |-> r.sounds, historyMap |-> r.historyMap,
                    err |-> r.err]
    /\ UNCHANGED <<sounds, history, now, wr, rd, nCalls, nOk, started, parser, fetched>>

\* detector.go:48-112  DetectTrendingWithCriteria on a storage that fails the
\* statement failAt of the bulk load
CallDetectTrendingFailing ==
    /\ \E c \in Categories, l \in DetectLimits, cr \in CriteriaSet, f \in FailPoints :
        \E r \in GetAllSoundsWithHistoryFailing(sounds, history, now, c, cr.LookbackHours, f) :
            \E out \in DetectOutcomes(r, l, cr) :
                ret' = [op |-> "DetectTrending", category |-> c, limit |-> l,
                        criteria |-> cr, failAt |-> f, sounds |-> r.sounds,
                        historyMap |-> r.historyMap, result |-> out.result, err |-> out.err]
    /\ UNCHANGED <<sounds, history, now, wr, rd, nCalls, nOk, started, parser, fetched>>

\* detector.go:123-127  AnalyzeTrends(category) on a storage that fails the
\* statement failAt of the bulk load
CallAnalyzeTrendsFailing ==
    /\ \E c \in Categories, f \in FailPoints :
        \E r \in GetAllSoundsWithHistoryFailing(sounds, history, now, c,
                                                DefaultCriteria.LookbackHours, f) :
            \E out \in DetectOutcomes(r, AnalyzeLimit, DefaultCriteria) :
                ret' = [op |-> "AnalyzeTrends", category |-> c, failAt |-> f,
                        detected |-> out.result,
                        result |-> IF out.err # NoErr THEN Nil ELSE Analysis(c, out.result),
                        err |-> out.err]
    /\ UNCHANGED <<sounds, history, now, wr, rd, nCalls, nOk, started, parser, fetched>>

\* the callers' statements, every one of them answered by the storage
NextWriters ==
    \/ Tick
    \/ \E w \in Writers : Call(w)
    \/ \E w \in Writers : Lookup(w)
    \/ \E w \in Writers : Update(w)
    \/ \E w \in Writers : Insert(w)
    \/ \E w \in Writers : InsertConflict(w)
    \/ \E w \in Writers : Reget(w)
    \/ \E w \in Writers : AppendHistory(w)

\* the detector's bulk load
NextReader ==
    \/ CallGetAll
    \/ GetAllList
    \/ GetAllHistory
    \/ GetAllReturn

\* statements that fail
NextFaults ==
    \/ \E w \in Writers : LookupFail(w)
    \/ \E w \in Writers : StatementFail(w)

\* one caller at a time, and the single-statement queries of the Storage interface
NextQuery ==
    \/ Tick
    \/ Call("cron")
    \/ Lookup("cron")
    \/ Update("cron")
    \/ Insert("cron")
    \/ Reget("cron")
    \/ AppendHistory("cron")
    \/ CallGetSoundsByCategory
    \/ CallGetSoundHistoryByTime

\* detector.go:72-96  the GrowthPercent the loop attaches to a sound that
\* passes its tests, for baseline oldCount and current count newCount
ScoreGrowth ==
    /\ \E oldCount \in GrowthOlds :
        \E newCount \in GrowthNews(oldCount) :
            ret' = [op |-> "growth", oldCount |-> oldCount, newCount |-> newCount,
                    growth_percent |-> IF oldCount = 0 THEN Sentinel64
                                       ELSE calculateGrowth64(oldCount, newCount)]
    /\ UNCHANGED <<sounds, history, now, wr, rd, nCalls, nOk, started, parser, fetched>>

\* the caller of the detector lets go of the result it was handed
Forget ==
    /\ ret # NoRet
    /\ ret' = NoRet
    /\ UNCHANGED <<sounds, history, now, wr, rd, nCalls, nOk, started, parser, fetched>>

\* one caller filling the store, and the detector run between its statements;
\* a result is let go of before the next step is taken
NextDetect ==
    \/ /\ ret = NoRet
       /\ \/ Tick
          \/ CallFrom("cron", DetectObservations, MaxDetectCalls)
          \/ Lookup("cron")
          \/ Update("cron")
          \/ Insert("cron")
          \/ Reget("cron")
          \/ AppendHistory("cron")
          \/ CallGetAllSoundsWithHistory
          \/ CallDetectTrendingWithCriteria
          \/ CallAnalyzeTrends
    \/ Forget

\* the same, on a storage that may fail the statements of the detector
NextDetectFaults ==
    \/ NextDetect
    \/ /\ ret = NoRet
       /\ \/ CallGetAllSoundsWithHistoryFailing
          \/ CallDetectTrendingFailing
          \/ CallAnalyzeTrendsFailing

\* ------------------------------------------------------------ the parser
\* part_000:578-580
ShouldFallback(p) == p.failCount >= p.maxFails

\* a fetch that returns its sounds without touching the counter
FetchSuccessKeepingCount(category) ==
    /\ Len(fetched) < MaxFetches
    /\ fetched' = Append(fetched, [category |-> category, failed |-> "none"])
    /\ UNCHANGED <<sounds, history, now, wr, rd, ret, nCalls, nOk, started, parser>>

\* part_000:405-446  FetchTrendingSounds with Navigate, WaitLoad and
\* parseSounds all answering: failCount is reset and the sounds are returned
FetchSuccess(category) ==
    /\ Len(fetched) < MaxFetches
    /\ parser' = [parser EXCEPT !.failCount = 0]
    /\ fetched' = Append(fetched, [category |-> category, failed |-> "none"])
    /\ UNCHANGED <<sounds, history, now, wr, rd, ret, nCalls, nOk, started>>

\* part_000:419-441  FetchTrendingSounds with the error of stage (Navigate,
\* WaitLoad, or parseSounds, which also fails on a page with no sounds):
\* failCount++ and the error is returned
FetchFail(category, stage) ==
    /\ Len(fetched) < MaxFetches
    /\ parser' = [parser EXCEPT !.failCount = @ + 1]
    /\ fetched' = Append(fetched, [category |-> category, failed |-> stage])
    /\ UNCHANGED <<sounds, history, now, wr, rd, ret, nCalls, nOk, started>>

\* one caller fetching category after category from the same parser
NextParser ==
    \/ \E category \in Categories : FetchSuccess(category)
    \/ \E category \in Categories : \E stage \in FailStages : FetchFail(category, stage)

Next == NextWriters \/ NextFaults

NextWithReader == NextWriters \/ NextReader

\* two callers of SaveSoundWithHistory on a storage whose statements may fail
Spec == Init /\ [][Next]_vars

\* two callers of SaveSoundWithHistory and the detector's reader, on a
\* storage that answers every statement
SpecReader == Init /\ [][NextWithReader]_vars

\* a single caller, and the queries run between its statements
SpecQuery == Init /\ [][NextQuery]_vars

\* a single caller, and the detector run against the store it fills
SpecDetect == Init /\ [][NextDetect]_vars

\* a single caller, and the detector run on a storage that may fail it
SpecDetectFaults == Init /\ [][NextDetectFaults]_vars

\* the growth values of the detector, computed in float64
SpecGrowth == Init /\ [][ScoreGrowth]_vars

\* a sequence of FetchTrendingSounds calls on one RodParser
SpecParser == Init /\ [][NextParser]_vars

\* ================================================================ claims
Quiescent == \A w \in Writers : wr[w].pc = "idle"

RowsOf(u) == { i \in DOMAIN sounds : sounds[i].url = u }

SnapshotsOf(u) == { k \in DOMAIN history : \E i \in RowsOf(u) : history[k].sound_id = i }

\* C1: in every reachable state there is at most one row of sounds per url,
\* and a row for every url for which SaveSoundWithHistory has returned nil.
C1_OneItemPerUrl ==
    /\ \A i, j \in DOMAIN sounds : sounds[i].url = sounds[j].url => i = j
    /\ \A u \in Urls : nOk[u] > 0 => Cardinality(RowsOf(u)) = 1

\* two calls for one url have returned, one of them with an error of SaveSound
C1_Witness ==
    \E u \in Urls :
        /\ nCalls[u] = 2 /\ nOk[u] = 1
        /\ \E w \in Writers : wr[w].pc = "idle" /\ wr[w].url = u /\ wr[w].err = "save"
        /\ Cardinality(RowsOf(u)) = 1

\* the call of w took the create path and has issued its INSERT INTO sounds
IssuedInsert(w) == wr[w].path = "create" /\ wr[w].pc # "save"

\* C2: two concurrent SaveSoundWithHistory calls for the same url never both
\* take the create path and both issue the INSERT of a new row.
C2_NoDoubleCreate ==
    ~ \E w1, w2 \in Writers :
        /\ w1 # w2
        /\ wr[w1].url = wr[w2].url
        /\ IssuedInsert(w1)
        /\ IssuedInsert(w2)

\* the call of w has written its row of sounds and not yet its snapshot
Torn(w) == wr[w].itemWritten /\ wr[w].pc \in {"reget", "history"}

\* C3: the SELECT of GetAllSoundsWithHistory never returns a row that carries
\* the uses_count of a call whose snapshot has not been appended yet.
C3_ReaderNeverSeesHalf ==
    [][ (rd.pc = "list" /\ rd'.pc = "loop") =>
          ~ \E w \in Writers :
              /\ Torn(w)
              /\ \E k \in DOMAIN rd'.sounds :
                    /\ rd'.sounds[k].id = wr[w].sound.id
                    /\ rd'.sounds[k].uses_count = wr[w].sound.uses_count ]_vars

\* C4: when no call is running, a url's row has as many snapshots as
\* SaveSoundWithHistory calls for that url have returned.
C4_OneSnapshotPerCall ==
    Quiescent => \A u \in Urls : Cardinality(SnapshotsOf(u)) = nCalls[u]

\* C5: a call that has returned an error has committed no write to sounds.
C5_ErrorLeavesStoreUntouched ==
    \A w \in Writers : (wr[w].pc = "idle" /\ wr[w].err # NoErr) => ~ wr[w].itemWritten

\* the snapshots of row i, by id
SnapshotIds(i) == { k \in DOMAIN history : history[k].sound_id = i }

\* C6: when no call is running, every row's uses_count is the uses_count of
\* the row's most recently appended snapshot.
C6_CountIsLatestSnapshot ==
    Quiescent =>
        \A i \in DOMAIN sounds :
            /\ SnapshotIds(i) # {}
            /\ LET last == CHOOSE k \in SnapshotIds(i) : \A j \in SnapshotIds(i) : j <= k
               IN  history[last].uses_count = sounds[i].uses_count

\* C7: no step removes or changes a row of sound_history.
C7_SnapshotsAppendOnly ==
    [][ /\ Len(history') >= Len(history)
        /\ \A k \in DOMAIN history : history'[k] = history[k] ]_vars

\* a second snapshot of a row has been appended after the first
C7_Witness ==
    /\ Len(history) = 2
    /\ history[1].sound_id = history[2].sound_id
    /\ history[1].uses_count # history[2].uses_count

\* C8: no step removes a row of sounds or changes its id, url or created_at,
\* and a step changes at most the row whose url a running call is updating.
C8_ItemIdentityStable ==
    [][ \A i \in DOMAIN sounds :
          /\ i \in DOMAIN sounds'
          /\ sounds'[i].id = sounds[i].id
          /\ sounds'[i].url = sounds[i].url
          /\ sounds'[i].created_at = sounds[i].created_at
          /\ sounds'[i] # sounds[i] =>
                \E w \in Writers : wr[w].pc = "update" /\ wr[w].url = sounds[i].url ]_vars

\* a row was updated after the hour of its creation, with another title
C8_Witness ==
    \E i \in DOMAIN sounds :
        /\ sounds[i].updated_at > sounds[i].created_at
        /\ sounds[i].title = "T2"
        /\ \E k \in DOMAIN history : history[k].sound_id = i /\ history[k].uses_count # sounds[i].uses_count

\* C9: GetSoundHistoryByTime(soundID, hoursAgo) returns a snapshot of soundID
\* recorded at or after now - hoursAgo such that no such snapshot is older,
\* and returns nil exactly when soundID has no snapshot at or after the cutoff.
C9_EarliestSnapshotSince ==
    ret.op = "GetSoundHistoryByTime" =>
        LET cutoff == now - ret.hoursAgo
            Q == { k \in DOMAIN history :
                     history[k].sound_id = ret.soundID /\ history[k].recorded_at >= cutoff }
        IN  IF Q = {}
            THEN ret.result = Nil
            ELSE /\ ret.result # Nil
                 /\ \E k \in Q : history[k] = ret.result
                 /\ \A j \in Q : ret.result.recorded_at <= history[j].recorded_at

\* the snapshot returned lies exactly at the cutoff and a younger one exists
C9_Witness ==
    /\ ret.op = "GetSoundHistoryByTime"
    /\ ret.result # Nil
    /\ ret.result.recorded_at = now - ret.hoursAgo
    /\ \E k \in DOMAIN history :
          /\ history[k].sound_id = ret.soundID
          /\ history[k].recorded_at > ret.result.recorded_at

InWindow(id, hoursAgo) ==
    { j \in DOMAIN history :
        history[j].sound_id = id /\ history[j].recorded_at >= now - hoursAgo }

\* C11: the mapping GetAllSoundsWithHistory returns has for keys exactly the
\* ids of the returned Items that have a Snapshot at or after
\* now - lookbackHours, and maps each of them to that Item's own earliest such
\* Snapshot; the Items without one are absent from it.
C11_BaselineMapping ==
    (ret.op = "GetAllSoundsWithHistory" /\ ret.err = NoErr) =>
        LET ids == { ret.sounds[k].id : k \in DOMAIN ret.sounds }
        IN  /\ DOMAIN ret.historyMap = { id \in ids : InWindow(id, ret.hoursAgo) # {} }
            /\ \A id \in DOMAIN ret.historyMap :
                \E j \in InWindow(id, ret.hoursAgo) :
                    /\ ret.historyMap[id] = history[j]
                    /\ \A j2 \in InWindow(id, ret.hoursAgo) :
                        history[j].recorded_at <= history[j2].recorded_at

\* the call returned two Items: one mapped to a Snapshot that is not its
\* oldest, one left out of the mapping although it has an older Snapshot
C11_Witness ==
    /\ ret.op = "GetAllSoundsWithHistory"
    /\ ret.err = NoErr
    /\ \E a, b \in DOMAIN ret.sounds :
        /\ ret.sounds[a].id \in DOMAIN ret.historyMap
        /\ \E j \in DOMAIN history :
            /\ history[j].sound_id = ret.sounds[a].id
            /\ history[j].recorded_at < ret.historyMap[ret.sounds[a].id].recorded_at
        /\ ret.sounds[b].id \notin DOMAIN ret.historyMap
        /\ \E j \in DOMAIN history : history[j].sound_id = ret.sounds[b].id

\* DetectTrendingWithCriteria has returned
Detected == ret.op = "DetectTrending" /\ ret.err = NoErr

\* the Items of the returned list
ReturnedSounds == { ret.result[j].sound : j \in DOMAIN ret.result }

\* the growth of sound s over its baseline old > 0 reaches criteria.MinGrowth
ReachesMinGrowth(s, old, criteria) ==
    (s.uses_count - old) * 100 * criteria.MinGrowth.den >= criteria.MinGrowth.num * old

\* C12: DetectTrending never returns an item whose usesCount is below
\* minUsesCount or above maxUsesCount, and an item exactly at either bound
\* stays eligible: with a baseline and enough growth it is in the full list.
C12_UsesBand ==
    Detected =>
        /\ \A s \in ReturnedSounds :
            /\ s.uses_count >= ret.criteria.MinUsesCount
            /\ s.uses_count <= ret.criteria.MaxUsesCount
        /\ \A k \in DOMAIN ret.sounds :
            LET s == ret.sounds[k]
            IN  ( /\ ret.limit <= 0
                  /\ ret.criteria.MinUsesCount <= ret.criteria.MaxUsesCount
                  /\ s.uses_count \in {ret.criteria.MinUsesCount, ret.criteria.MaxUsesCount}
                  /\ s.id \in DOMAIN ret.historyMap
                  /\ \/ ret.historyMap[s.id].uses_count = 0
                     \/ ReachesMinGrowth(s, ret.historyMap[s.id].uses_count, ret.criteria) )
                => s \in ReturnedSounds

\* an item exactly at minUsesCount was returned, and a loaded item with a
\* baseline and enough growth was left out for being above maxUsesCount
C12_Witness ==
    /\ Detected
    /\ \E s \in ReturnedSounds : s.uses_count = ret.criteria.MinUsesCount
    /\ \E k \in DOMAIN ret.sounds :
        LET s == ret.sounds[k]
        IN  /\ s.id \in DOMAIN ret.historyMap
            /\ ret.historyMap[s.id].uses_count > 0
            /\ ReachesMinGrowth(s, ret.historyMap[s.id].uses_count, ret.criteria)
            /\ s.uses_count > ret.criteria.MaxUsesCount

\* C13: DetectTrending never returns an item that has no Snapshot inside the
\* lookback window, whatever Snapshots it has from before the cutoff.
C13_NeedsBaseline ==
    Detected =>
        \A s \in ReturnedSounds : InWindow(s.id, ret.criteria.LookbackHours) # {}

\* an item inside the band whose Snapshots are all older than the cutoff was
\* loaded and left out of the result
C13_Witness ==
    /\ Detected
    /\ \E k \in DOMAIN ret.sounds :
        LET s == ret.sounds[k]
        IN  /\ s.uses_count >= ret.criteria.MinUsesCount
            /\ s.uses_count <= ret.criteria.MaxUsesCount
            /\ InWindow(s.id, ret.criteria.LookbackHours) = {}
            /\ \E j \in DOMAIN history : history[j].sound_id = s.id
            /\ s \notin ReturnedSounds

\* sound s was loaded with a baseline and lies inside the band of the criteria
Eligible(s) ==
    /\ s.uses_count >= ret.criteria.MinUsesCount
    /\ s.uses_count <= ret.criteria.MaxUsesCount
    /\ s.id \in DOMAIN ret.historyMap

\* C14: a returned item whose baseline Snapshot has usesCount old > 0 carries
\* growthPercent = (current - old) / old * 100 with current its usesCount, and
\* oldUsesCount = old.
C14_GrowthFormula ==
    Detected =>
        \A j \in DOMAIN ret.result :
            LET r == ret.result[j]
                old == ret.historyMap[r.sound.id].uses_count
            IN  old > 0 =>
                    /\ r.growth_percent.den > 0
                    /\ r.growth_percent.num * old
                         = (r.sound.uses_count - old) * 100 * r.growth_percent.den
                    /\ r.old_uses_count = old

\* an item that rose from 1000 to 2600 was returned with growth 160
C14_Witness ==
    /\ Detected
    /\ \E j \in DOMAIN ret.result :
        /\ ret.result[j].sound.uses_count = 2600
        /\ ret.historyMap[ret.result[j].sound.id].uses_count = 1000
        /\ ret.result[j].growth_percent = [num |-> 160, den |-> 1]
        /\ ret.result[j].old_uses_count = 1000

\* C15: an item inside the band with baseline old > 0 is in the full list iff
\* its growth is at least minGrowthPercent, the threshold included: old = 1000
\* and current = 2600 is in for thresholds 150 and 160 and out for 170.
C15_GrowthThreshold ==
    (Detected /\ ret.limit <= 0) =>
        \A k \in DOMAIN ret.sounds :
            LET s == ret.sounds[k]
            IN  (Eligible(s) /\ ret.historyMap[s.id].uses_count > 0) =>
                    /\ s \in ReturnedSounds
                         <=> ReachesMinGrowth(s, ret.historyMap[s.id].uses_count, ret.criteria)
                    /\ (s.uses_count = 2600 /\ ret.historyMap[s.id].uses_count = 1000) =>
                         /\ ret.criteria.MinGrowth.num \in {150, 160} => s \in ReturnedSounds
                         /\ ret.criteria.MinGrowth.num = 170 => s \notin ReturnedSounds

\* with threshold 160 an item that rose from 1000 to 2600 was returned
C15_Witness ==
    /\ Detected
    /\ ret.limit <= 0
    /\ ret.criteria.MinGrowth = [num |-> 160, den |-> 1]
    /\ \E s \in ReturnedSounds :
        s.uses_count = 2600 /\ ret.historyMap[s.id].uses_count = 1000

\* C16: an item inside the band whose baseline Snapshot has usesCount 0 is in
\* the full list whatever minGrowthPercent is, and is returned with
\* growthPercent 999.9 and oldUsesCount 0.
C16_NewItem ==
    Detected =>
        /\ \A k \in DOMAIN ret.sounds :
            LET s == ret.sounds[k]
            IN  (ret.limit <= 0 /\ Eligible(s) /\ ret.historyMap[s.id].uses_count = 0)
                    => s \in ReturnedSounds
        /\ \A j \in DOMAIN ret.result :
            ret.historyMap[ret.result[j].sound.id].uses_count = 0 =>
                /\ ret.result[j].growth_percent = [num |-> 9999, den |-> 10]
                /\ ret.result[j].old_uses_count = 0

\* with threshold 170 an item first seen with no uses and now at 600 was returned
C16_Witness ==
    /\ Detected
    /\ ret.criteria.MinGrowth = [num |-> 170, den |-> 1]
    /\ \E j \in DOMAIN ret.result :
        /\ ret.result[j].sound.uses_count = 600
        /\ ret.historyMap[ret.result[j].sound.id].uses_count = 0
        /\ ret.result[j].old_uses_count = 0

\* C17: the growth 999.9 given to an item with baseline 0 is never the
\* growthPercent computed for a baseline old > 0, so a result has the
\* sentinel growth exactly when its baseline is 0.
C17_SentinelDistinct ==
    ret.op = "growth" => (ret.growth_percent = Sentinel64 <=> ret.oldCount = 0)

\* growth was computed for old = 1000 and current = 10999, whose quotient
\* 9.999 float64 rounds up, and came out above 999.9
C17_Witness ==
    /\ ret.op = "growth"
    /\ ret.oldCount = 1000
    /\ ret.newCount = 10999
    /\ ret.growth_percent # Sentinel64
    /\ ret.growth_percent.exp = Sentinel64.exp

\* C18: the list DetectTrending returns is sorted by growthPercent in
\* non-increasing order, adjacent results i, i+1 having
\* growth[i] >= growth[i+1], results with the growth 999.9 included.
C18_SortedByGrowth ==
    Detected =>
        \A i \in DOMAIN ret.result :
            i + 1 \in DOMAIN ret.result =>
                ret.result[i].growth_percent.num * ret.result[i + 1].growth_percent.den
                  >= ret.result[i + 1].growth_percent.num * ret.result[i].growth_percent.den

\* a new item with growth 999.9 was returned ahead of an item with a computed
\* growth, although it was loaded behind it
C18_Witness ==
    /\ Detected
    /\ Len(ret.result) = 2
    /\ ret.result[1].old_uses_count = 0
    /\ ret.result[1].growth_percent = [num |-> 9999, den |-> 10]
    /\ ret.result[2].old_uses_count > 0
    /\ ret.result[2].growth_percent = [num |-> 160, den |-> 1]
    /\ Len(ret.sounds) = 2
    /\ ret.sounds[1] = ret.result[2].sound

\* the loaded sounds that pass the band, baseline and growth tests
Accepted ==
    { k \in DOMAIN ret.sounds :
        /\ Eligible(ret.sounds[k])
        /\ \/ ret.historyMap[ret.sounds[k].id].uses_count = 0
           \/ ReachesMinGrowth(ret.sounds[k], ret.historyMap[ret.sounds[k].id].uses_count,
                               ret.criteria) }

\* the growth of an accepted sound, times 10
GrowthTimes10(s) ==
    IF ret.historyMap[s.id].uses_count = 0 THEN [num |-> 9999, den |-> 1]
    ELSE [num |-> (s.uses_count - ret.historyMap[s.id].uses_count) * 1000,
          den |-> ret.historyMap[s.id].uses_count]

\* C19: with limit > 0 DetectTrending returns min(limit, n) of the n accepted
\* items, each once, and no accepted item it leaves out has a strictly greater
\* growth than one it returns; with limit <= 0 it returns all n.
C19_Limit ==
    Detected =>
        LET n == Cardinality(Accepted)
        IN  /\ Len(ret.result) = IF ret.limit > 0 THEN Min(ret.limit, n) ELSE n
            /\ \A j \in DOMAIN ret.result :
                \E k \in Accepted : ret.sounds[k] = ret.result[j].sound
            /\ \A i, j \in DOMAIN ret.result :
                ret.result[i].sound = ret.result[j].sound => i = j
            /\ \A k \in Accepted :
                ret.sounds[k] \notin ReturnedSounds =>
                    \A s \in ReturnedSounds :
                        GrowthTimes10(s).num * GrowthTimes10(ret.sounds[k]).den
                          >= GrowthTimes10(ret.sounds[k]).num * GrowthTimes10(s).den

\* two items were accepted with different growths, limit was 1, and the one
\* with the greater growth was returned, the other left out
C19_Witness ==
    /\ Detected
    /\ ret.limit = 1
    /\ Cardinality(Accepted) = 2
    /\ Len(ret.result) = 1
    /\ \E k \in Accepted :
        /\ ret.sounds[k] \notin ReturnedSounds
        /\ GrowthTimes10(ret.sounds[k]).num * ret.result[1].growth_percent.den
             < 10 * ret.result[1].growth_percent.num * GrowthTimes10(ret.sounds[k]).den

C21_DetectorReadOnly ==
    [][ret'.op \in {"DetectTrending", "AnalyzeTrends"}
         => (sounds' = sounds /\ history' = history)]_vars

\* DetectTrending has returned an error over a store that holds Items and
\* Snapshots
C21_Witness ==
    /\ ret.op = "DetectTrending"
    /\ ret.err # NoErr
    /\ Len(sounds) = 2
    /\ Len(history) >= 2

\* the storage failed a statement of the bulk load behind the call that returned
Faulted == ret.op # "none" /\ "failAt" \in DOMAIN ret

\* C22: when the storage fails the baseline lookup of any one item during
\* GetAllSoundsWithHistory, the call returns no sounds and no mapping but the
\* error, and DetectTrending returns an error and no results.
C22_BatchAborted ==
    Faulted =>
        /\ ret.err # NoErr
        /\ ret.op = "GetAllSoundsWithHistory" => (ret.sounds = Nil /\ ret.historyMap = Nil)
        /\ ret.op = "DetectTrending" => ret.result = Nil
        /\ ret.op = "AnalyzeTrends" => ret.result = Nil

\* the baseline lookup of the second of two sounds failed, the first of them
\* acceptable under the criteria, and DetectTrending returned the error alone
C22_Witness ==
    /\ Faulted
    /\ ret.op = "DetectTrending"
    /\ ret.failAt = 2
    /\ ret.err # NoErr
    /\ ret.result = Nil
    /\ \E r \in GetAllSoundsWithHistory(sounds, history, now, ret.category,
                                        ret.criteria.LookbackHours) :
        /\ Len(r.sounds) = 2
        /\ Score(r.sounds[1], r.historyMap, ret.criteria) # <<>>

\* C23: a call of SaveSoundWithHistory during which the storage failed a
\* statement, the first GetSoundByURL included, does not return nil.
C23_FailuresPropagate ==
    \A w \in Writers : (wr[w].pc = "idle" /\ wr[w].failed) => wr[w].err # NoErr

\* C24: the criteria are not validated: with minUsesCount > maxUsesCount
\* DetectTrending returns an empty list and no error, whatever is stored.
C24_InvertedBand ==
    (ret.op = "DetectTrending" /\ ret.criteria.MinUsesCount > ret.criteria.MaxUsesCount)
        => (ret.err = NoErr /\ ret.result = <<>>)

\* DetectTrending returned nothing under a band from 1000 down to 600 although
\* it had loaded a sound of 1000 uses with a baseline
C24_Witness ==
    /\ ret.op = "DetectTrending"
    /\ ret.criteria.MinUsesCount > ret.criteria.MaxUsesCount
    /\ ret.err = NoErr
    /\ ret.result = <<>>
    /\ \E k \in DOMAIN ret.sounds :
        /\ ret.sounds[k].uses_count = ret.criteria.MinUsesCount
        /\ ret.sounds[k].id \in DOMAIN ret.historyMap

\* C25: when SaveSoundWithHistory(url, title, author, usesCount, category)
\* returns nil, every GetSoundsByCategory(category, limit) with limit at least
\* the number of sounds of that category lists a sound of that url with the
\* title, author, category and usesCount just recorded, were the url new or
\* stored before, in this or another category.
C25_RoundTrip ==
    [][(wr["cron"].pc = "history" /\ wr'["cron"].pc = "idle" /\ wr'["cron"].err = NoErr)
         => LET o == wr["cron"].sound
                n == Cardinality({ i \in DOMAIN sounds' : sounds'[i].category = o.category })
            IN  \A l \in Limits :
                    l >= n =>
                        \A r \in GetSoundsByCategory(sounds', o.category, l) :
                            \E k \in DOMAIN r :
                                /\ r[k].url = o.url
                                /\ r[k].title = o.title
                                /\ r[k].author = o.author
                                /\ r[k].category = o.category
                                /\ r[k].uses_count = o.uses_count]_vars

\* u1, first recorded under tech, was recorded again under gaming, and the
\* list of gaming then taken shows it with the values of the second call
C25_Witness ==
    /\ ret.op = "GetSoundsByCategory"
    /\ ret.category = "gaming"
    /\ wr["cron"].pc = "idle"
    /\ wr["cron"].err = NoErr
    /\ wr["cron"].url = "u1"
    /\ nOk["u1"] = 2
    /\ \E k \in DOMAIN ret.result :
        /\ ret.result[k].url = "u1"
        /\ ret.result[k].title = "T2"
        /\ ret.result[k].uses_count = 2
        /\ ret.result[k].created_at < ret.result[k].updated_at

\* no two sounds were last written at the same time and no two snapshots of
\* one sound were recorded at the same time, so that the rows GetSoundsByCategory
\* and GetSoundHistoryByTime return are fixed by their ORDER BY
DistinctTimes ==
    /\ \A i, j \in DOMAIN sounds : sounds[i].updated_at = sounds[j].updated_at => i = j
    /\ \A i, j \in DOMAIN history :
        (history[i].sound_id = history[j].sound_id
           /\ history[i].recorded_at = history[j].recorded_at) => i = j

RECURSIVE ConsecutiveFails(_)
ConsecutiveFails(log) ==
    IF log = <<>> \/ log[Len(log)].failed = "none" THEN 0
    ELSE 1 + ConsecutiveFails(SubSeq(log, 1, Len(log) - 1))

\* C28: after any sequence of FetchTrendingSounds calls on a RodParser,
\* failCount is the number of consecutive failed fetches since the last
\* successful one, and ShouldFallback is true exactly when that number has
\* reached maxFails
C28_FailCount ==
    /\ parser.failCount = ConsecutiveFails(fetched)
    /\ ShouldFallback(parser) <=> ConsecutiveFails(fetched) >= maxFails

\* a success after a failure, then maxFails failures in a row: the counter was
\* reset and has climbed back to the fallback
C28_Witness ==
    /\ Len(fetched) = maxFails + 2
    /\ fetched[1].failed # "none"
    /\ fetched[2].failed = "none"
    /\ \A i \in 3..Len(fetched) : fetched[i].failed # "none"
    /\ ShouldFallback(parser)

====
